---- MODULE Spec2Model ----
(***************************************************************************)
(* Model of the POSIX menu model of minifb: src/os/posix/common.rs (Menu)  *)
(* and the Menu / MenuItem front end of src/lib.rs.                        *)
(*                                                                         *)
(* A PosixMenu is a record [name, items, handle, item_counter]; items is   *)
(* the Vec<PosixMenuItem>.  Option<T> is a sequence of length at most one. *)
(* The host owns one Menu per name in MenuNames and at most one MenuItem   *)
(* value (the builder); a MenuItem whose menu field is Some(m) holds the   *)
(* exclusive borrow of m, so no other call on m is possible while it       *)
(* lives.                                                                  *)
(***************************************************************************)
EXTENDS Integers, Sequences, FiniteSets, TLC

\* ------------------------------------------------------------------ bounds
\* number of add calls (add_menu_item, add_separator, add_sub_menu) the host
\* makes on its menus, all menus together
MaxAdds == 4
\* number of MenuItem::build calls that reach a menu, all menus together
MaxBuilds == 2
\* the clock, in milliseconds, is not advanced by the host past MaxTime
MaxTime == 6
\* the scroll accumulated on one axis stays within -MaxScroll .. MaxScroll
MaxScroll == 7

\* --------------------------------------------------------------- constants
\* a usize id is written as its two 16-bit halves << high, low >>, since the
\* checker's integers are 32-bit signed and 0xffffffff does not fit in one
Id(n) == << n \div 65536, n % 65536 >>
\* const MENU_ID_SEPARATOR: usize = 0xffffffff
MENU_ID_SEPARATOR == << 65535, 65535 >>
CTRL == 2
ModifiersEmpty == 0
KeyUnknown == "Unknown"
KeyA == "A"
\* the default key repeat delay and rate, 0.25 s and 0.05 s, in milliseconds
KeyRepeatDelay == 250
KeyRepeatRate == 50

None == << >>
Some(x) == << x >>

\* the menus the host owns, by the name given to Menu::new
MenuNames == {"File", "Edit"}
\* (name, id) pairs the host passes to MenuItem::new and Menu::add_item
ItemArgs == { <<"Open", 1>>, <<"Exit", 2>> }
\* names the host passes to add_sub_menu
SubNames == {"Sub"}
\* (key, modifiers) pairs the host passes to MenuItem::shortcut
Shortcuts == { <<KeyA, CTRL>> }
\* handle values the host passes to remove_item
Handles == 0 .. MaxAdds

VARIABLES menus, item, issued, ret

\* the host's window, its rate limiter and input trackers, the clock, and the
\* record of the last call on the window
VARIABLES win, rate, clock, keys, mouse, out
\* what the claims need of the past: when the last rate-limited tick began,
\* the polls made and the scroll delivered since the last edge or read
VARIABLE hist

mvars == << menus, item, issued, ret >>
wvars == << win, rate, clock, keys, mouse, out, hist >>
vars == << menus, item, issued, ret, win, rate, clock, keys, mouse, out, hist >>

\* ------------------------------------------------------------ lib.rs items
MenuItem_default ==
    [ id        |-> MENU_ID_SEPARATOR,
      label     |-> "",
      enabled   |-> TRUE,
      key       |-> KeyUnknown,
      modifiers |-> ModifiersEmpty,
      menu      |-> None ]

MenuItem_new(name, id) ==
    [ MenuItem_default EXCEPT !.id = id, !.label = name ]

\* variant: the clone forgets the shortcut key
MenuItem_clone_nokey(it) ==
    [ id        |-> it.id,
      label     |-> it.label,
      enabled   |-> it.enabled,
      key       |-> KeyUnknown,
      modifiers |-> it.modifiers,
      menu      |-> None ]

\* variant: the clone keeps the reference to the menu
MenuItem_clone_keepmenu(it) ==
    [ id        |-> it.id,
      label     |-> it.label,
      enabled   |-> it.enabled,
      key       |-> it.key,
      modifiers |-> it.modifiers,
      menu      |-> it.menu ]

MenuItem_clone(it) ==
    [ id        |-> it.id,
      label     |-> it.label,
      enabled   |-> it.enabled,
      key       |-> it.key,
      modifiers |-> it.modifiers,
      menu      |-> None ]

shortcut(it, key, modifiers) ==
    [ it EXCEPT !.key = key, !.modifiers = modifiers ]

separator(it) ==
    [ it EXCEPT !.id = MENU_ID_SEPARATOR ]

enabled(it, e) ==
    [ it EXCEPT !.enabled = e ]

add_item(m, name, id) ==
    [ MenuItem_default EXCEPT !.id = id, !.label = name, !.menu = Some(m) ]

\* ------------------------------------------------------- posix/common.rs
Menu_new(name) ==
    [ name         |-> name,
      items        |-> << >>,
      handle       |-> 0,
      item_counter |-> 0 ]

\* returns the counter's value before the increment
next_item_handle(pm) ==
    [ handle |-> pm.item_counter,
      menu   |-> [ pm EXCEPT !.item_counter = @ + 1 ] ]

\* variant: a shallow copy, the nodes of sub lose their own sub menus
add_sub_menu_shallow(pm, name, sub) ==
    LET r == next_item_handle(pm) IN
    [ r.menu EXCEPT !.items = Append(@,
        [ label     |-> name,
          handle    |-> r.handle,
          sub_menu  |-> Some([ sub EXCEPT !.items =
                          [ i \in DOMAIN sub.items |->
                              [ sub.items[i] EXCEPT !.sub_menu = None ] ] ]),
          id        |-> Id(0),
          enabled   |-> TRUE,
          key       |-> KeyUnknown,
          modifiers |-> ModifiersEmpty ]) ]

add_sub_menu(pm, name, sub) ==
    LET r == next_item_handle(pm) IN
    [ r.menu EXCEPT !.items = Append(@,
        [ label     |-> name,
          handle    |-> r.handle,
          sub_menu  |-> Some(sub),
          id        |-> Id(0),
          enabled   |-> TRUE,
          key       |-> KeyUnknown,
          modifiers |-> ModifiersEmpty ]) ]

\* the node records self.internal.item_counter, read after next_item_handle
\* has incremented it; the caller gets the value from before the increment
add_menu_item(pm, it) ==
    LET r == next_item_handle(pm) IN
    [ ret  |-> r.handle,
      menu |-> [ r.menu EXCEPT !.items = Append(@,
        [ sub_menu  |-> None,
          handle    |-> r.menu.item_counter,
          id        |-> it.id,
          label     |-> it.label,
          enabled   |-> it.enabled,
          key       |-> it.key,
          modifiers |-> it.modifiers ]) ] ]

\* variant: only the first matching node is deleted
remove_item_first(pm, h) ==
    LET hits == { i \in DOMAIN pm.items : pm.items[i].handle = h } IN
    IF hits = {} THEN pm
    ELSE LET k == CHOOSE i \in hits : \A j \in hits : i <= j IN
         [ pm EXCEPT !.items = SubSeq(@, 1, k - 1) \o SubSeq(@, k + 1, Len(@)) ]

\* variant: the counter is wound back to the number of nodes left
remove_item_rewind(pm, h) ==
    LET kept == SelectSeq(pm.items, LAMBDA n : n.handle # h) IN
    [ pm EXCEPT !.items = kept, !.item_counter = Len(kept) ]

remove_item(pm, h) ==
    [ pm EXCEPT !.items = SelectSeq(@, LAMBDA n : n.handle # h) ]

\* variant: the separator is added with id 0
add_separator_id0(pm) ==
    add_menu_item(pm, [ MenuItem_default EXCEPT !.id = Id(0) ])

add_separator(pm) ==
    add_menu_item(pm, [ MenuItem_default EXCEPT !.id = MENU_ID_SEPARATOR ])

\* MenuItem::build: the clone t is what is added; with no menu the call
\* returns MenuItemHandle(0) and touches nothing
build(ms, it) ==
    LET t == MenuItem_clone(it) IN
    IF it.menu # None
      THEN LET r == add_menu_item(ms[it.menu[1]], t) IN
           [ ret |-> r.ret, menus |-> [ ms EXCEPT ![it.menu[1]] = r.menu ] ]
      ELSE [ ret |-> 0, menus |-> ms ]

\* ------------------------------------------------------------ lib.rs window
Ok(x) == << "Ok", x >>
Err(e) == << "Err", e >>

\* a call made on the platform window (imp::Window), with its arguments
ImpCall(fn, args) == [ fn |-> fn, args |-> args ]

\* the record of one call of the host on Window (or of the user closing it):
\* its result, the calls it made on the platform window, in order, and the
\* time it spent waiting
Outcome(fn, args, res, calls, waited) ==
    [ fn |-> fn, args |-> args, res |-> res, calls |-> calls, waited |-> waited ]

\* the WindowOptions values the host passes to Window::new
CreateOpts ==
    [ borderless   : BOOLEAN,
      title        : {TRUE},
      resize       : BOOLEAN,
      scale        : {"X1", "X2"},
      scale_mode   : {"Stretch", "Center"},
      topmost      : {FALSE},
      transparency : BOOLEAN,
      none         : BOOLEAN ]
\* the (name, width, height) triples the host passes to Window::new
CreateArgs == { <<"Test", 3, 2>>, <<"Test", 2, 3>> }

\* imp::Window::new: the platform either makes the window or fails
imp_Window_new(name, width, height, opts) ==
    { Ok([ is_open |-> TRUE, width |-> width, height |-> height,
           opts |-> opts, bg |-> 0 ]),
      Err("WindowCreate") }

\* variant: the option check is left out
Window_new_nocheck(name, width, height, opts, made) ==
    [ res   |-> made,
      calls |-> << ImpCall("new", << name, width, height, opts >>) >> ]

\* Window::new; made is the result imp::Window::new gives if it is called
Window_new(name, width, height, opts, made) ==
    IF opts.transparency /\ ~opts.borderless
      THEN [ res |-> Err("WindowCreate"), calls |-> << >> ]
      ELSE [ res   |-> made,
             calls |-> << ImpCall("new", << name, width, height, opts >>) >> ]

\* ------------------------------------------------- window state (platform)
Max(a, b) == IF a >= b THEN a ELSE b

\* the keys the platform reports
Keys == { KeyA }
\* the intervals, in milliseconds, the host passes to limit_update_rate
Intervals == { None, Some(2), Some(4) }
\* (buffer length, width, height) triples the host passes to update_with_buffer
BufferArgs == { <<6, 3, 2>>, <<5, 3, 2>>, <<6, 2, 3>> }

WindowOptions_default ==
    [ borderless   |-> FALSE,
      title        |-> TRUE,
      resize       |-> FALSE,
      scale        |-> "X1",
      scale_mode   |-> "Stretch",
      topmost      |-> FALSE,
      transparency |-> FALSE,
      none         |-> FALSE ]

\* the rate limiter of a window made at time now; 4 ms is the default interval
RateLimiter_new(now) == [ target_interval |-> Some(4), last_tick |-> now ]

KeyState_new ==
    [ is_down |-> FALSE, went_down_at |-> None, last_repeat_at |-> None,
      released_this_poll |-> FALSE ]

KeyTracker_new == [ k \in Keys |-> KeyState_new ]

MouseState_new ==
    [ raw_x |-> 0, raw_y |-> 0, buttons |-> << FALSE, FALSE, FALSE >>,
      scroll_x |-> 0, scroll_y |-> 0, scrolled |-> FALSE ]

\* tick_start: when the last tick with an interval began; late: that tick
\* came more than the interval after the one before it; after_late: the
\* tick before it did; polls[k]: the is_key_pressed calls on k since its last
\* down edge, counted to 2; scroll, delivered: the sum of the scroll
\* delivered since the last get_scroll_wheel, and whether any was
History_new(now) ==
    [ tick_start |-> now,
      late       |-> FALSE,
      after_late |-> FALSE,
      polls      |-> [ k \in Keys |-> None ],
      scroll     |-> << 0, 0 >>,
      delivered  |-> FALSE ]

\* the window and its trackers, as one value the calls below transform
State(w, r, c, k, m) == [ win |-> w, rate |-> r, clock |-> c, keys |-> k, mouse |-> m ]

set_rate(r, t) == [ r EXCEPT !.target_interval = t ]

\* variant: the next tick is due one interval after the last due time
tick_debt(r, now) ==
    IF r.target_interval = None
      THEN [ rate |-> r, waited |-> 0 ]
      ELSE [ rate   |-> [ r EXCEPT !.last_tick = @ + r.target_interval[1] ],
             waited |-> Max(0, r.target_interval[1] - (now - r.last_tick)) ]

\* the rate limiter's tick: waits out what is left of the interval since the
\* previous tick began, and notes when this one began
tick(r, now) ==
    IF r.target_interval = None
      THEN [ rate |-> r, waited |-> 0 ]
      ELSE [ rate   |-> [ r EXCEPT !.last_tick = now ],
             waited |-> Max(0, r.target_interval[1] - (now - r.last_tick)) ]

\* imp::Window::update_rate: one tick; the wait blocks the caller
imp_update_rate(st) ==
    LET t == tick(st.rate, st.clock) IN
    [ st |-> [ st EXCEPT !.rate = t.rate, !.clock = @ + t.waited ],
      waited |-> t.waited ]

\* the start of a polling cycle: the released marks are cleared
poll_cycle(ks) == [ k \in DOMAIN ks |-> [ ks[k] EXCEPT !.released_this_poll = FALSE ] ]

\* imp::Window::update: pumps the queue of an open window, nothing once closed
imp_update(st) ==
    IF st.win[1].is_open
      THEN [ st EXCEPT !.keys = poll_cycle(@) ]
      ELSE st

\* imp::Window::update_with_buffer_stride: as update, and presents the buffer;
\* a buffer shorter than width * height is refused
imp_update_with_buffer_stride(st, len, width, height, stride) ==
    IF ~st.win[1].is_open
      THEN [ st |-> st, res |-> Ok("()") ]
      ELSE IF len < stride * height
        THEN [ st |-> st, res |-> Err("UpdateFailed") ]
        ELSE [ st |-> [ st EXCEPT !.keys = poll_cycle(@) ], res |-> Ok("()") ]

\* variant: the stride passed on is the height
Window_update_with_buffer_hstride(st, len, width, height) ==
    LET r == imp_update_rate(st)
        u == imp_update_with_buffer_stride(r.st, len, width, height, height) IN
    [ st |-> u.st, res |-> u.res, waited |-> r.waited,
      calls |-> << ImpCall("update_rate", << >>),
                   ImpCall("update_with_buffer_stride", << len, width, height, height >>) >> ]

\* Window::update_with_buffer
Window_update_with_buffer(st, len, width, height) ==
    LET r == imp_update_rate(st)
        u == imp_update_with_buffer_stride(r.st, len, width, height, width) IN
    [ st |-> u.st, res |-> u.res, waited |-> r.waited,
      calls |-> << ImpCall("update_rate", << >>),
                   ImpCall("update_with_buffer_stride", << len, width, height, width >>) >> ]

\* Window::update
Window_update(st) ==
    LET r == imp_update_rate(st) IN
    [ st |-> imp_update(r.st), res |-> Ok("()"), waited |-> r.waited,
      calls |-> << ImpCall("update_rate", << >>), ImpCall("update", << >>) >> ]

\* Window::limit_update_rate
Window_limit_update_rate(st, t) == [ st EXCEPT !.rate = set_rate(@, t) ]

\* Window::is_open
Window_is_open(st) == st.win[1].is_open

\* ------------------------------------------------------ input trackers
\* (dx, dy) pairs the platform delivers as scroll
ScrollDeltas == { <<3, 4>>, <<-3, -4>>, <<1, 0>> }
\* coordinates the platform delivers as the mouse position
Coords == -1 .. 3
KeyRepeats == { "Yes", "No" }
MouseModes == { "Pass", "Clamp", "Discard" }

\* a down event on a key that is up is the down edge; a down event on a key
\* that is down is the platform's own repeat and changes nothing
on_raw_key_event(ks, k, pressed, now) ==
    IF pressed
      THEN IF ks[k].is_down THEN ks
           ELSE [ ks EXCEPT ![k] = [ @ EXCEPT !.is_down = TRUE,
                                              !.went_down_at = Some(now),
                                              !.last_repeat_at = None ] ]
      ELSE IF ks[k].is_down
           THEN [ ks EXCEPT ![k] = [ @ EXCEPT !.is_down = FALSE,
                                              !.released_this_poll = TRUE ] ]
           ELSE ks

\* variant: pressed means down
is_key_pressed_level(ks, k, repeat, now) ==
    [ res |-> ks[k].is_down, keys |-> ks ]

\* true once for a down edge, and with KeyRepeat::Yes again after the delay,
\* at the repeat rate, while the key is down
is_key_pressed(ks, k, repeat, now) ==
    IF ks[k].went_down_at # None /\ ks[k].last_repeat_at = None
      THEN [ res |-> TRUE, keys |-> [ ks EXCEPT ![k].last_repeat_at = Some(now) ] ]
      ELSE IF /\ repeat = "Yes"
              /\ ks[k].is_down
              /\ now - ks[k].went_down_at[1] >= KeyRepeatDelay
              /\ now - ks[k].last_repeat_at[1] >= KeyRepeatRate
        THEN [ res |-> TRUE, keys |-> [ ks EXCEPT ![k].last_repeat_at = Some(now) ] ]
        ELSE [ res |-> FALSE, keys |-> ks ]

on_raw_motion(m, x, y) == [ m EXCEPT !.raw_x = x, !.raw_y = y ]

on_raw_scroll(m, dx, dy) ==
    [ m EXCEPT !.scroll_x = @ + dx, !.scroll_y = @ + dy, !.scrolled = TRUE ]

\* variant: the read leaves the accumulated scroll in place
get_scroll_wheel_keep(m) ==
    IF m.scrolled
      THEN [ res |-> Some(<< m.scroll_x, m.scroll_y >>), mouse |-> m ]
      ELSE [ res |-> None, mouse |-> m ]

get_scroll_wheel(m) ==
    IF m.scrolled
      THEN [ res   |-> Some(<< m.scroll_x, m.scroll_y >>),
             mouse |-> [ m EXCEPT !.scroll_x = 0, !.scroll_y = 0, !.scrolled = FALSE ] ]
      ELSE [ res |-> None, mouse |-> m ]

\* variant: the value is passed through
clamp_value(low, value, high) == value

\* pub fn clamp
clamp(low, value, high) ==
    IF value < low THEN low
    ELSE IF value > high THEN high
    ELSE value

\* variant: Clamp allows the coordinate just past the last pixel
get_unscaled_mouse_pos_edge(m, mode, width, height) ==
    IF mode = "Pass" THEN Some(<< m.raw_x, m.raw_y >>)
    ELSE IF mode = "Clamp"
      THEN Some(<< clamp(0, m.raw_x, width), clamp(0, m.raw_y, height) >>)
      ELSE IF m.raw_x < 0 \/ m.raw_x >= width \/ m.raw_y < 0 \/ m.raw_y >= height
        THEN None
        ELSE Some(<< m.raw_x, m.raw_y >>)

get_unscaled_mouse_pos(m, mode, width, height) ==
    IF mode = "Pass" THEN Some(<< m.raw_x, m.raw_y >>)
    ELSE IF mode = "Clamp"
      THEN Some(<< clamp(0, m.raw_x, width - 1), clamp(0, m.raw_y, height - 1) >>)
      ELSE IF m.raw_x < 0 \/ m.raw_x >= width \/ m.raw_y < 0 \/ m.raw_y >= height
        THEN None
        ELSE Some(<< m.raw_x, m.raw_y >>)

\* x << n and a | b on unsigned values
Shl(x, n) == x * 2 ^ n
RECURSIVE BitOr(_, _)
BitOr(a, b) ==
    IF a = 0 THEN b
    ELSE IF b = 0 THEN a
    ELSE 2 * BitOr(a \div 2, b \div 2) + (IF (a % 2) = 1 \/ (b % 2) = 1 THEN 1 ELSE 0)
\* v as u32: the low 32 bits, taken on the two 16-bit halves of v
AsU32(v) == ((v \div 65536) % 65536) * 65536 + (v % 65536)

\* Window::set_background_color
Window_set_background_color(st, red, green, blue) ==
    LET r == clamp(0, red, 255)
        g == clamp(0, green, 255)
        b == clamp(0, blue, 255)
        c == AsU32(BitOr(BitOr(Shl(r, 16), Shl(g, 8)), b)) IN
    [ st    |-> [ st EXCEPT !.win = Some([ @[1] EXCEPT !.bg = c ]) ],
      calls |-> << ImpCall("set_background_color", << c >>) >> ]

\* ------------------------------------------------------------- exploration
\* item_counter counts the add calls made on a menu
RECURSIVE SumCounters(_)
SumCounters(S) ==
    IF S = {} THEN 0
    ELSE LET m == CHOOSE x \in S : TRUE
         IN menus[m].item_counter + SumCounters(S \ {m})

TotalAdds == SumCounters(MenuNames)

\* the borrow checker: a live builder of m excludes every other use of m
Free(m) == IF item = None THEN TRUE ELSE item[1].menu # Some(m)

Init ==
    /\ menus = [ m \in MenuNames |-> Menu_new(m) ]
    /\ item = None
    /\ issued = [ m \in MenuNames |-> << >> ]
    /\ ret = None
    /\ win = None
    /\ rate = RateLimiter_new(0)
    /\ clock = 0
    /\ keys = KeyTracker_new
    /\ mouse = MouseState_new
    /\ hist = History_new(0)
    /\ out = Outcome("", << >>, Ok("()"), << >>, 0)

\* host: h = m.add_menu_item(&MenuItem::new(name, id))
AddMenuItem(m, a) ==
    /\ Free(m) /\ TotalAdds < MaxAdds
    /\ LET r == add_menu_item(menus[m], MenuItem_new(a[1], Id(a[2]))) IN
         /\ menus' = [ menus EXCEPT ![m] = r.menu ]
         /\ issued' = [ issued EXCEPT ![m] = Append(@,
                [ handle |-> r.ret, node |-> r.menu.items[Len(r.menu.items)] ]) ]
         /\ ret' = Some(r.ret)
    /\ UNCHANGED << item, wvars >>

\* host: m.add_separator()
AddSeparator(m) ==
    /\ Free(m) /\ TotalAdds < MaxAdds
    /\ menus' = [ menus EXCEPT ![m] = add_separator(menus[m]).menu ]
    /\ ret' = None
    /\ UNCHANGED << item, issued, wvars >>

\* host: m.add_sub_menu(name, &o); m and o are different menus, since m is
\* borrowed mutably and o immutably
AddSubMenu(m, name, o) ==
    /\ o # m
    /\ Free(m) /\ Free(o) /\ TotalAdds < MaxAdds
    /\ menus' = [ menus EXCEPT ![m] = add_sub_menu(menus[m], name, menus[o]) ]
    /\ ret' = None
    /\ UNCHANGED << item, issued, wvars >>

\* host: m.remove_item(&MenuItemHandle(h))
RemoveItem(m, h) ==
    /\ Free(m)
    /\ menus' = [ menus EXCEPT ![m] = remove_item(menus[m], h) ]
    /\ ret' = None
    /\ UNCHANGED << item, issued, wvars >>

Next ==
    \/ \E m \in MenuNames, a \in ItemArgs : AddMenuItem(m, a)
    \/ \E m \in MenuNames : AddSeparator(m)
    \/ \E m \in MenuNames, n \in SubNames, o \in MenuNames : AddSubMenu(m, n, o)
    \/ \E m \in MenuNames, h \in Handles : RemoveItem(m, h)

Spec == Init /\ [][Next]_vars

\* ------------------------------------------------------ the item builder
\* host: let mut it = MenuItem::new(name, id)
NewItem(a) ==
    /\ item = None
    /\ item' = Some(MenuItem_new(a[1], Id(a[2])))
    /\ ret' = None
    /\ UNCHANGED << menus, issued, wvars >>

\* host: let mut it = MenuItem::default()
DefaultItem ==
    /\ item = None
    /\ item' = Some(MenuItem_default)
    /\ ret' = None
    /\ UNCHANGED << menus, issued, wvars >>

\* host: let mut it = m.add_item(name, id); it borrows m until it is dropped
AddItem(m, a) ==
    /\ item = None
    /\ item' = Some(add_item(m, a[1], Id(a[2])))
    /\ ret' = None
    /\ UNCHANGED << menus, issued, wvars >>

\* host: it = it.shortcut(key, modifiers)
Shortcut(k) ==
    /\ item # None
    /\ item' = Some(shortcut(item[1], k[1], k[2]))
    /\ ret' = None
    /\ UNCHANGED << menus, issued, wvars >>

\* host: it = it.enabled(e)
Enabled(e) ==
    /\ item # None
    /\ item' = Some(enabled(item[1], e))
    /\ ret' = None
    /\ UNCHANGED << menus, issued, wvars >>

\* host: it = it.separator()
Separator ==
    /\ item # None
    /\ item' = Some(separator(item[1]))
    /\ ret' = None
    /\ UNCHANGED << menus, issued, wvars >>

\* host: it = it.clone(); the original, and its borrow, are dropped
CloneItem ==
    /\ item # None
    /\ item' = Some(MenuItem_clone(item[1]))
    /\ ret' = None
    /\ UNCHANGED << menus, issued, wvars >>

\* host: h = it.build(); build takes &mut self, so it stays usable
Build ==
    /\ item # None
    /\ item[1].menu # None => TotalAdds < MaxBuilds
    /\ LET r == build(menus, item[1]) IN
         /\ menus' = r.menus
         /\ ret' = Some(r.ret)
         /\ issued' = IF item[1].menu = None THEN issued
                      ELSE LET m == item[1].menu[1] IN
                           [ issued EXCEPT ![m] = Append(@,
                               [ handle |-> r.ret,
                                 node   |-> r.menus[m].items[Len(r.menus[m].items)] ]) ]
    /\ UNCHANGED << item, wvars >>

\* host: drop(it)
DropItem ==
    /\ item # None
    /\ item' = None
    /\ ret' = None
    /\ UNCHANGED << menus, issued, wvars >>

NextBuilder ==
    \/ \E a \in ItemArgs : NewItem(a)
    \/ DefaultItem
    \/ \E m \in MenuNames, a \in ItemArgs : AddItem(m, a)
    \/ \E k \in Shortcuts : Shortcut(k)
    \/ \E e \in BOOLEAN : Enabled(e)
    \/ Separator
    \/ CloneItem
    \/ Build
    \/ DropItem

SpecBuilder == Init /\ [][NextBuilder]_vars

\* ------------------------------------------------------------- the window
\* host: let w = Window::new(name, width, height, opts)
WindowNew(a, opts) ==
    /\ win = None
    /\ \E made \in imp_Window_new(a[1], a[2], a[3], opts) :
         LET r == Window_new(a[1], a[2], a[3], opts, made) IN
         /\ win' = IF r.res[1] = "Ok" THEN Some(r.res[2]) ELSE None
         /\ out' = Outcome("new", << a, opts >>,
                           IF r.res[1] = "Ok" THEN Ok("Window") ELSE r.res,
                           r.calls, 0)
    /\ rate' = RateLimiter_new(clock)
    /\ keys' = KeyTracker_new
    /\ mouse' = MouseState_new
    /\ hist' = History_new(clock)
    /\ UNCHANGED << clock, mvars >>

\* host: drop(w)
WindowDrop ==
    /\ win # None
    /\ win' = None
    /\ out' = Outcome("drop", << >>, Ok("()"), << >>, 0)
    /\ UNCHANGED << rate, clock, keys, mouse, hist, mvars >>

NextNew ==
    \/ \E a \in CreateArgs, opts \in CreateOpts : WindowNew(a, opts)
    \/ WindowDrop

SpecNew == Init /\ [][NextNew]_vars

\* the window and its trackers now
Now == State(win, rate, clock, keys, mouse)

\* the state st becomes the window and its trackers
Becomes(st) ==
    /\ win' = st.win
    /\ rate' = st.rate
    /\ clock' = st.clock
    /\ keys' = st.keys
    /\ mouse' = st.mouse

\* a tick that began now is noted, if the limiter has an interval
NoteTick == hist' = IF rate.target_interval = None THEN hist
                    ELSE [ hist EXCEPT
                             !.tick_start = clock,
                             !.late = clock - hist.tick_start > rate.target_interval[1],
                             !.after_late = hist.late ]

\* time passes in the host, between two calls
Pass(dt) ==
    /\ clock + dt <= MaxTime
    /\ clock' = clock + dt
    /\ UNCHANGED << win, rate, keys, mouse, out, hist, mvars >>

\* the user closes the window
UserClose ==
    /\ win # None
    /\ win[1].is_open
    /\ win' = Some([ win[1] EXCEPT !.is_open = FALSE ])
    /\ out' = Outcome("closed", << >>, Ok("()"), << >>, 0)
    /\ UNCHANGED << rate, clock, keys, mouse, hist, mvars >>

\* host: w.update()
Update ==
    /\ win # None
    /\ clock <= MaxTime
    /\ LET r == Window_update(Now) IN
         /\ Becomes(r.st)
         /\ out' = Outcome("update", << >>, r.res, r.calls, r.waited)
    /\ NoteTick
    /\ UNCHANGED mvars

\* host: w.update_with_buffer(&buffer, width, height), buffer.len() = b[1]
UpdateWithBuffer(b) ==
    /\ win # None
    /\ clock <= MaxTime
    /\ LET r == Window_update_with_buffer(Now, b[1], b[2], b[3]) IN
         /\ Becomes(r.st)
         /\ out' = Outcome("update_with_buffer", b, r.res, r.calls, r.waited)
    /\ NoteTick
    /\ UNCHANGED mvars

\* host: w.limit_update_rate(t)
LimitUpdateRate(t) ==
    /\ win # None
    /\ Becomes(Window_limit_update_rate(Now, t))
    /\ out' = Outcome("limit_update_rate", << t >>, Ok("()"),
                      << ImpCall("set_rate", << t >>) >>, 0)
    /\ UNCHANGED << hist, mvars >>

Abs(n) == IF n < 0 THEN 0 - n ELSE n
Live == IF win = None THEN FALSE ELSE win[1].is_open

\* platform: a key event arrives
RawKey(k, pressed) ==
    /\ Live
    /\ keys' = on_raw_key_event(keys, k, pressed, clock)
    /\ hist' = IF pressed /\ ~keys[k].is_down
                 THEN [ hist EXCEPT !.polls[k] = Some(0) ]
                 ELSE hist
    /\ UNCHANGED << win, rate, clock, mouse, out, mvars >>

\* host: w.is_key_pressed(k, repeat)
IsKeyPressed(k, repeat) ==
    /\ win # None
    /\ LET r == is_key_pressed(keys, k, repeat, clock) IN
         /\ keys' = r.keys
         /\ out' = Outcome("is_key_pressed", << k, repeat >>, Ok(r.res),
                           << ImpCall("is_key_pressed", << k, repeat >>) >>, 0)
    /\ hist' = IF hist.polls[k] = None THEN hist
               ELSE [ hist EXCEPT !.polls[k] = Some(IF @[1] = 0 THEN 1 ELSE 2) ]
    /\ UNCHANGED << win, rate, clock, mouse, mvars >>

\* platform: the mouse moves
RawMotion(x, y) ==
    /\ Live
    /\ mouse' = on_raw_motion(mouse, x, y)
    /\ UNCHANGED << win, rate, clock, keys, out, hist, mvars >>

\* platform: the wheel turns
RawScroll(d) ==
    /\ Live
    /\ Abs(mouse.scroll_x + d[1]) <= MaxScroll
    /\ Abs(mouse.scroll_y + d[2]) <= MaxScroll
    /\ mouse' = on_raw_scroll(mouse, d[1], d[2])
    /\ hist' = [ hist EXCEPT !.scroll = << @[1] + d[1], @[2] + d[2] >>,
                             !.delivered = TRUE ]
    /\ UNCHANGED << win, rate, clock, keys, out, mvars >>

\* host: w.get_scroll_wheel()
GetScrollWheel ==
    /\ win # None
    /\ LET r == get_scroll_wheel(mouse) IN
         /\ mouse' = r.mouse
         /\ out' = Outcome("get_scroll_wheel", << >>, Ok(r.res),
                           << ImpCall("get_scroll_wheel", << >>) >>, 0)
    /\ hist' = [ hist EXCEPT !.scroll = << 0, 0 >>, !.delivered = FALSE ]
    /\ UNCHANGED << win, rate, clock, keys, mvars >>

\* host: w.get_unscaled_mouse_pos(mode)
GetUnscaledMousePos(mode) ==
    /\ win # None
    /\ out' = Outcome("get_unscaled_mouse_pos", << mode >>,
                      Ok(get_unscaled_mouse_pos(mouse, mode, win[1].width, win[1].height)),
                      << ImpCall("get_unscaled_mouse_pos", << mode >>) >>, 0)
    /\ UNCHANGED << win, rate, clock, keys, mouse, hist, mvars >>

\* the window the specifications below start from
DefaultArgs == { a \in CreateArgs : a[2] = 3 }

NextUpdate ==
    \/ \E a \in DefaultArgs : WindowNew(a, WindowOptions_default)
    \/ UserClose
    \/ \E dt \in 1 .. 2 : Pass(dt)
    \/ Update
    \/ \E b \in BufferArgs : UpdateWithBuffer(b)
    \/ \E t \in Intervals : LimitUpdateRate(t)
    \/ \E k \in Keys, pressed \in BOOLEAN : RawKey(k, pressed)

SpecUpdate == Init /\ [][NextUpdate]_vars

NextKeys ==
    \/ \E a \in DefaultArgs : WindowNew(a, WindowOptions_default)
    \/ \E dt \in 1 .. 2 : Pass(dt)
    \/ \E k \in Keys, pressed \in BOOLEAN : RawKey(k, pressed)
    \/ \E k \in Keys, repeat \in KeyRepeats : IsKeyPressed(k, repeat)

SpecKeys == Init /\ [][NextKeys]_vars

NextMouse ==
    \/ \E a \in CreateArgs : WindowNew(a, WindowOptions_default)
    \/ \E x \in Coords, y \in Coords : RawMotion(x, y)
    \/ \E d \in ScrollDeltas : RawScroll(d)
    \/ GetScrollWheel
    \/ \E mode \in MouseModes : GetUnscaledMousePos(mode)

SpecMouse == Init /\ [][NextMouse]_vars

\* the channel values the host passes to set_background_color
Channels == { 0, 1, 255, 256, 511 }

\* host: w.set_background_color(red, green, blue)
SetBackgroundColor(red, green, blue) ==
    /\ win # None
    /\ LET r == Window_set_background_color(Now, red, green, blue) IN
         /\ Becomes(r.st)
         /\ out' = Outcome("set_background_color", << red, green, blue >>,
                           Ok("()"), r.calls, 0)
    /\ UNCHANGED << hist, mvars >>

NextColor ==
    \/ \E a \in DefaultArgs : WindowNew(a, WindowOptions_default)
    \/ \E red \in Channels, green \in Channels, blue \in Channels :
         SetBackgroundColor(red, green, blue)

SpecColor == Init /\ [][NextColor]_vars

\* the host builds items that have no menu and uses the handles on its menus
NextDiscard ==
    \/ \E a \in ItemArgs : NewItem(a)
    \/ Build
    \/ DropItem
    \/ \E m \in MenuNames : AddSeparator(m)
    \/ \E m \in MenuNames, n \in SubNames, o \in MenuNames : AddSubMenu(m, n, o)
    \/ \E m \in MenuNames, h \in Handles : RemoveItem(m, h)

SpecDiscard == Init /\ [][NextDiscard]_vars

\* ---------------------------------------------------------------- claims
Nodes(pm) == { pm.items[i] : i \in DOMAIN pm.items }
LastNode(pm) == pm.items[Len(pm.items)]
Without(items, x) == SelectSeq(items, LAMBDA n : n # x)
\* the fields a node takes from the MenuItem given to add_menu_item
CarriesItem(n, it) ==
    /\ n.id = it.id
    /\ n.label = it.label
    /\ n.enabled = it.enabled
    /\ n.key = it.key
    /\ n.modifiers = it.modifiers
    /\ n.sub_menu = None
\* pm2 is pm with exactly one node appended
AppendsOne(pm, pm2) ==
    /\ Len(pm2.items) = Len(pm.items) + 1
    /\ SubSeq(pm2.items, 1, Len(pm.items)) = pm.items

\* C1: remove_item with the handle add_menu_item returned for an item X that
\* is still in the menu removes X: afterwards X is absent and the menu has
\* exactly one node less.
C1_RemoveReturnedHandle ==
    [][ \A m \in MenuNames : \A i \in DOMAIN issued[m] :
          ( /\ RemoveItem(m, issued[m][i].handle)
            /\ issued[m][i].node \in Nodes(menus[m]) )
          => /\ issued[m][i].node \notin Nodes(menus'[m])
             /\ Len(menus'[m].items) = Len(menus[m].items) - 1 ]_vars

\* C2: remove_item with the handle returned for item X leaves every other
\* item of the menu in place, with the same fields and in the same order.
C2_RemoveKeepsOthers ==
    [][ \A m \in MenuNames : \A i \in DOMAIN issued[m] :
          RemoveItem(m, issued[m][i].handle)
          => Without(menus'[m].items, issued[m][i].node)
               = Without(menus[m].items, issued[m][i].node) ]_vars

\* C3: the handles add_menu_item returned on one menu are pairwise distinct
\* over the menu's whole life, removals included; item_counter never
\* decreases, and every add operation increases it by exactly one.
C3_HandlesDistinctCounterMonotone ==
    /\ [] ( \A m \in MenuNames : \A i, j \in DOMAIN issued[m] :
              i # j => issued[m][i].handle # issued[m][j].handle )
    /\ [][ \A m \in MenuNames :
             /\ menus'[m].item_counter >= menus[m].item_counter
             /\ ( \/ \E a \in ItemArgs : AddMenuItem(m, a)
                  \/ AddSeparator(m)
                  \/ \E n \in SubNames, o \in MenuNames : AddSubMenu(m, n, o) )
                => menus'[m].item_counter = menus[m].item_counter + 1 ]_vars

\* a handle was returned on a menu after an earlier item of it was removed
C3_Witness ==
    \E m \in MenuNames :
        /\ \A o \in MenuNames \ {m} : issued[o] = << >>
        /\ Len(issued[m]) >= 2
        /\ issued[m][1].node \notin Nodes(menus[m])
        /\ ret = Some(issued[m][Len(issued[m])].handle)
        /\ issued[m][Len(issued[m])].node \in Nodes(menus[m])

\* C4: no two nodes of a menu's top-level items carry the same handle.
C4_TopLevelHandlesUnique ==
    \A m \in MenuNames : \A i, j \in DOMAIN menus[m].items :
        i # j => menus[m].items[i].handle # menus[m].items[j].handle

\* C5: remove_item is idempotent and reports nothing: after remove_item(h) a
\* second remove_item(h) leaves items and item_counter as the first call
\* left them.
C5_RemoveIdempotent ==
    [][ \A m \in MenuNames, h \in Handles :
          RemoveItem(m, h)
          => /\ remove_item(menus'[m], h) = menus'[m]
             /\ ret' = None ]_vars

\* a remove_item call has deleted a node
C5_Witness ==
    \E m \in MenuNames : Len(menus[m].items) < menus[m].item_counter

\* C6: one remove_item call removes at most one node from the top-level
\* items, and the nodes it keeps, their sub menus included, are unchanged.
C6_RemoveAtMostOne ==
    [][ \A m \in MenuNames, h \in Handles :
          RemoveItem(m, h)
          => /\ Len(menus'[m].items) >= Len(menus[m].items) - 1
             /\ Nodes(menus'[m]) \subseteq Nodes(menus[m]) ]_vars

\* C7: add_sub_menu(name, other) stores other's whole tree as it is at the
\* call and leaves other alone; a later operation on one menu changes no
\* other menu, so the stored copy and its source never follow each other.
C7_SubMenuIsDeepCopy ==
    [][ /\ \A m \in MenuNames, n \in SubNames, o \in MenuNames :
             AddSubMenu(m, n, o)
             => /\ AppendsOne(menus[m], menus'[m])
                /\ LastNode(menus'[m]).sub_menu = Some(menus[o])
                /\ menus'[o] = menus[o]
        /\ \A m \in MenuNames : \A o \in MenuNames \ {m} :
             menus'[o] # menus[o] => menus'[m] = menus[m] ]_vars

\* a parent holds a copy of a menu that has been edited since, and the copy
\* itself holds a sub menu
C7_Witness ==
    \E m \in MenuNames : \E i \in DOMAIN menus[m].items :
        LET n == menus[m].items[i] IN
        /\ n.sub_menu # None
        /\ n.sub_menu[1] # menus[n.sub_menu[1].name]
        /\ \E k \in DOMAIN n.sub_menu[1].items :
               n.sub_menu[1].items[k].sub_menu # None

\* C8 as stated: add_separator appends exactly one node, a disabled
\* placeholder (enabled = false) with the reserved separator id.
C8_SeparatorDisabled ==
    [][ \A m \in MenuNames :
          AddSeparator(m)
          => /\ AppendsOne(menus[m], menus'[m])
             /\ LastNode(menus'[m]).enabled = FALSE
             /\ LastNode(menus'[m]).id = MENU_ID_SEPARATOR ]_vars

\* C8 amended: add_separator appends exactly one node, which has the
\* reserved separator id and otherwise the fields of MenuItem::default, so
\* it is enabled (enabled = true).
C8_SeparatorIsDefaultItem ==
    [][ \A m \in MenuNames :
          AddSeparator(m)
          => /\ AppendsOne(menus[m], menus'[m])
             /\ LastNode(menus'[m]).id = MENU_ID_SEPARATOR
             /\ LastNode(menus'[m]).id = << 65535, 65535 >>
             /\ LastNode(menus'[m]).enabled = TRUE
             /\ CarriesItem(LastNode(menus'[m]),
                            [ MenuItem_default EXCEPT !.id = MENU_ID_SEPARATOR ]) ]_vars

\* a separator is the last node of a menu that also holds another node
C8_Witness ==
    \E m \in MenuNames :
        /\ Len(menus[m].items) >= 2
        /\ LastNode(menus[m]).id = MENU_ID_SEPARATOR
        /\ LastNode(menus[m]).label = ""

\* C9: the builder inserts only on build(): add_item and the shortcut /
\* enabled / separator calls leave every menu's items and item_counter as
\* they are, and each build() of a builder that add_item returned appends
\* exactly one node with the builder's id, label, enabled, key and modifiers.
C9_BuilderInsertsOnBuild ==
    [][ /\ ( \/ \E m \in MenuNames, a \in ItemArgs : AddItem(m, a)
             \/ \E k \in Shortcuts : Shortcut(k)
             \/ \E e \in BOOLEAN : Enabled(e)
             \/ Separator
             \/ DropItem )
           => menus' = menus
        /\ ( Build /\ item # None /\ item[1].menu # None )
           => LET m == item[1].menu[1] IN
              /\ AppendsOne(menus[m], menus'[m])
              /\ CarriesItem(LastNode(menus'[m]), item[1])
              /\ menus'[m].item_counter = menus[m].item_counter + 1
              /\ \A o \in MenuNames \ {m} : menus'[o] = menus[o] ]_vars

\* a builder with a shortcut, disabled, has been built twice into its menu
C9_Witness ==
    /\ item # None
    /\ item[1].menu # None
    /\ item[1].key = KeyA
    /\ item[1].enabled = FALSE
    /\ ret # None
    /\ LET pm == menus[item[1].menu[1]] IN
       /\ Len(pm.items) >= 2
       /\ CarriesItem(pm.items[Len(pm.items)], item[1])
       /\ CarriesItem(pm.items[Len(pm.items) - 1], item[1])

\* C10: an item made by MenuItem::new, MenuItem::default or by cloning a
\* builder has no backing menu, and build() on an item with no backing menu
\* returns a handle value and leaves every menu's items and item_counter as
\* they are.
C10_BuildWithoutMenuDiscarded ==
    [][ /\ ( \/ \E a \in ItemArgs : NewItem(a)
             \/ DefaultItem
             \/ CloneItem )
           => item'[1].menu = None
        /\ ( Build /\ item # None /\ item[1].menu = None )
           => /\ menus' = menus
              /\ ret' = Some(0) ]_vars

\* build() has just been called on the clone of a builder whose menu already
\* holds a node
C10_Witness ==
    /\ item # None
    /\ item[1].menu = None
    /\ item[1].id # MENU_ID_SEPARATOR
    /\ item[1].key = KeyA
    /\ ret = Some(0)
    /\ \E m \in MenuNames : menus[m].items # << >>

\* C11: Window::new with transparency and without borderless returns
\* Err(WindowCreate) at once, whatever the name, size and other options: the
\* platform constructor is not called and no window exists afterwards; with
\* every other option combination the platform constructor is called and its
\* result is the result of the call.
C11_TransparencyNeedsBorderless ==
    [][ \A a \in CreateArgs, opts \in CreateOpts :
          WindowNew(a, opts)
          => IF opts.transparency /\ ~opts.borderless
               THEN /\ out'.res = Err("WindowCreate")
                    /\ out'.calls = << >>
                    /\ win' = None
               ELSE /\ out'.calls = << ImpCall("new", << a[1], a[2], a[3], opts >>) >>
                    /\ out'.res[1] = "Ok" <=> win' # None
                    /\ out'.res[1] = "Err" <=> win' = None
                    /\ win' # None => /\ win'[1].width = a[2]
                                      /\ win'[1].height = a[3]
                                      /\ win'[1].opts = opts ]_vars

\* Window::new has just refused a transparent window with a border
C11_Witness ==
    /\ out.fn = "new"
    /\ out.args[2].transparency /\ ~out.args[2].borderless
    /\ out.args[2].resize /\ out.args[2].none
    /\ out.res = Err("WindowCreate")
    /\ win = None

\* a call of update or of update_with_buffer
AnyUpdate == Update \/ \E b \in BufferArgs : UpdateWithBuffer(b)

\* C12: once a window is closed, every further update() and
\* update_with_buffer() is a no-op: it returns no error, does not wait in the
\* rate limiter, and leaves the key, mouse, rate-limiter and scale state of
\* the window unchanged.
C12_ClosedUpdateIsNoOp ==
    [][ (AnyUpdate /\ ~Live)
          => /\ out'.res = Ok("()")
             /\ out'.waited = 0
             /\ clock' = clock
             /\ keys' = keys
             /\ mouse' = mouse
             /\ rate' = rate
             /\ win' = win ]_vars

\* C13: the rate limiter never accumulates debt: with interval Some(d) a tick
\* waits max(0, d - time since the previous tick began), so a tick that
\* arrives later than d waits zero and the tick after it waits as if it had
\* been on time; with interval None every tick waits zero.
C13_NoDebt ==
    [][ AnyUpdate
          => LET d == rate.target_interval
                 elapsed == clock - hist.tick_start IN
             /\ out'.waited = IF d = None THEN 0 ELSE Max(0, d[1] - elapsed)
             /\ d # None /\ elapsed > d[1] => out'.waited = 0
             /\ clock' = clock + out'.waited ]_vars

C13_Witness ==
    /\ out.fn \in { "update", "update_with_buffer" }
    /\ rate.target_interval = Some(4)
    /\ hist.after_late
    /\ ~hist.late
    /\ out.waited = 3

Inside(x, y, w, h) == 0 <= x /\ x < w /\ 0 <= y /\ y < h

\* C16: for a raw position outside the window, get_unscaled_mouse_pos returns
\* None under Discard, a position with each axis in [0, dimension - 1] under
\* Clamp, and the position unchanged under Pass; for a position inside the
\* window all three modes return it unchanged.
C16_MouseModes ==
    [][ \A mode \in MouseModes :
          GetUnscaledMousePos(mode)
            => LET x == mouse.raw_x
                   y == mouse.raw_y
                   w == win[1].width
                   h == win[1].height
                   r == out'.res[2] IN
               /\ out'.res[1] = "Ok"
               /\ Inside(x, y, w, h) => r = Some(<< x, y >>)
               /\ ~Inside(x, y, w, h) /\ mode = "Discard" => r = None
               /\ ~Inside(x, y, w, h) /\ mode = "Pass" => r = Some(<< x, y >>)
               /\ ~Inside(x, y, w, h) /\ mode = "Clamp"
                    => /\ r # None
                       /\ Inside(r[1][1], r[1][2], w, h) ]_vars

C16_Witness ==
    /\ out.fn = "get_unscaled_mouse_pos"
    /\ out.args = << "Clamp" >>
    /\ mouse.raw_x = 3
    /\ mouse.raw_y = -1
    /\ win[1].width = 3
    /\ win[1].height = 2
    /\ out.res = Ok(Some(<< 2, 0 >>))

\* C17: add_menu_item appends exactly one node at the end of the menu's
\* items, the node copies the item's id, label, enabled, key and modifiers
\* and has no sub_menu, and the handle returned to the caller is the handle
\* recorded on the appended node.
C17_AddMenuItemReturnsNodeHandle ==
    [][ \A m \in MenuNames, a \in ItemArgs :
          AddMenuItem(m, a)
            => /\ AppendsOne(menus[m], menus'[m])
               /\ CarriesItem(LastNode(menus'[m]), MenuItem_new(a[1], Id(a[2])))
               /\ ret' = Some(LastNode(menus'[m]).handle) ]_vars

\* C18: every update() and every update_with_buffer() calls the rate limiter
\* exactly once, before the platform update or presentation of the same call,
\* and update_with_buffer presents with the stride equal to the given width.
C18_RateThenUpdate ==
    [][ /\ Update
          => out'.calls = << ImpCall("update_rate", << >>),
                             ImpCall("update", << >>) >>
        /\ \A b \in BufferArgs :
             UpdateWithBuffer(b)
               => out'.calls = << ImpCall("update_rate", << >>),
                                  ImpCall("update_with_buffer_stride",
                                          << b[1], b[2], b[3], b[2] >>) >>
        /\ AnyUpdate
             => /\ rate' = tick(rate, clock).rate
                /\ out'.waited = tick(rate, clock).waited ]_vars

C18_Witness ==
    /\ out.fn = "update_with_buffer"
    /\ out.args = << 6, 2, 3 >>
    /\ out.calls[2] = ImpCall("update_with_buffer_stride", << 6, 2, 3, 2 >>)
    /\ out.res = Ok("()")
    /\ out.waited > 0

Min(a, b) == IF a <= b THEN a ELSE b

\* C19: set_background_color(red, green, blue) passes to the platform window
\* min(red, 255) * 2^16 + min(green, 255) * 2^8 + min(blue, 255): the value is
\* below 2^24 and each channel of it is the clamped input of that channel
\* alone.
C19_BackgroundColorPacked ==
    [][ \A red \in Channels, green \in Channels, blue \in Channels :
          SetBackgroundColor(red, green, blue)
            => LET c == win'[1].bg IN
               /\ out'.calls = << ImpCall("set_background_color", << c >>) >>
               /\ c = Min(red, 255) * 65536 + Min(green, 255) * 256 + Min(blue, 255)
               /\ c < 2 ^ 24
               /\ c \div 65536 = Min(red, 255)
               /\ (c \div 256) % 256 = Min(green, 255)
               /\ c % 256 = Min(blue, 255) ]_vars

C19_Witness ==
    /\ out.fn = "set_background_color"
    /\ out.args = << 1, 256, 511 >>
    /\ win[1].bg = 131071

\* C20: a handle obtained from build() on an item with no menu is stale for
\* every menu: remove_item with that handle leaves the menu's items unchanged.
C20_DiscardedHandleIsStale ==
    [][ \A m \in MenuNames :
          ( /\ ret # None
            /\ item # None
            /\ RemoveItem(m, IF ret = None THEN 0 ELSE ret[1]) )
            => menus'[m].items = menus[m].items ]_vars

====
